---- MODULE Spec2Model ----
(***************************************************************************)
(* Model of cog_layers.reader: the tile resolution of tiler.py             *)
(* (request_xyz_tile, request_metatile and the asyncio.gather fan-out of   *)
(* the row reads) and the default-client cache of io.py                    *)
(* (send_range_obstore, _get_default_obstore_client).                      *)
(*                                                                         *)
(* Tiles are records [z, x, y] as mercantile.Tile.  Geographic corners     *)
(* (mercantile.ul) are kept in exact fixed point with 2^Res units per      *)
(* world width, so the conversions tile -> corner -> tile are computed,    *)
(* not assumed.  Python's set is modelled as CPython's open-addressing     *)
(* table, because request_metatile takes its row order from it.            *)
(***************************************************************************)
EXTENDS Integers, Sequences, FiniteSets, TLC

VARIABLES cog, req, pc, tasks, call, result, err,
          cache, made, inflight, fetched

tilerVars == <<cog, req, pc, tasks, call, result, err>>
ioVars == <<cache, made, inflight, fetched>>
vars == <<cog, req, pc, tasks, call, result, err, cache, made, inflight, fetched>>

(* ------------------------------ bounds -------------------------------- *)
\* deepest zoom of the quadkey in cog.key
MaxParentZ == 1
\* largest number of IFDs of a cog
MaxIfd == 2
\* deepest zoom a request resolves at (tile.z, or metatile_zoom)
MaxZoom == 2
\* sizes are 2^0 .. 2^MaxLogSize
MaxLogSize == 2
\* calls of the object-store backend that are followed
MaxCalls == 3

(* ------------------------------ helpers ------------------------------- *)
RECURSIVE Pow2(_)
Pow2(n) == IF n <= 0 THEN 1 ELSE 2 * Pow2(n - 1)

\* math.log(size, 2) for a power of two (exact for the sizes in range)
RECURSIVE Log2(_)
Log2(n) == IF n <= 1 THEN 0 ELSE 1 + Log2(n \div 2)

Tile(x, y, z) == [z |-> z, x |-> x, y |-> y]

TilesAt(z) == {Tile(x, y, z) : x \in 0..(Pow2(z) - 1), y \in 0..(Pow2(z) - 1)}

\* min(s) and max(s) of a non-empty sequence
SeqMin(s) == CHOOSE m \in {s[i] : i \in 1..Len(s)} : \A i \in 1..Len(s) : m <= s[i]

SeqMax(s) == CHOOSE m \in {s[i] : i \in 1..Len(s)} : \A i \in 1..Len(s) : m >= s[i]

(* ----------------------------- mercantile ----------------------------- *)
\* mercantile.quadkey_to_tile: digits are read from the last to the first,
\* digit i (from the right) sets bit i of x (1, 3) and of y (2, 3)
RECURSIVE QuadkeyToTile(_)
QuadkeyToTile(qk) ==
    IF Len(qk) = 0 THEN Tile(0, 0, 0)
    ELSE LET rest == QuadkeyToTile(SubSeq(qk, 1, Len(qk) - 1))
             d == qk[Len(qk)]
         IN Tile(2 * rest.x + (d % 2), 2 * rest.y + (d \div 2), rest.z + 1)

\* fixed-point resolution of a corner: fine enough for every zoom in range
Res == MaxZoom + MaxParentZ

\* mercantile.ul: the upper-left corner of a tile
Ul(t) == [fx |-> t.x * Pow2(Res - t.z), fy |-> t.y * Pow2(Res - t.z)]

\* mercantile.tile(lng, lat, zoom): the tile of that zoom holding the point
MTile(p, zoom) == Tile(p.fx \div Pow2(Res - zoom), p.fy \div Pow2(Res - zoom), zoom)

\* the k-th (0..3) child appended for a tile by mercantile.children:
\* (2x,2y) (2x+1,2y) (2x+1,2y+1) (2x,2y+1)
ChildOf(t, k) ==
    Tile(2 * t.x + (IF k \in {1, 2} THEN 1 ELSE 0),
         2 * t.y + (IF k \in {2, 3} THEN 1 ELSE 0), t.z + 1)

\* mercantile.children(tile, zoom=...): while tiles[0].z < zoom the head is
\* popped and its four children are appended, so one pass over a whole
\* level replaces it by the children of its tiles, in the order of the tiles
RECURSIVE ChildrenFrom(_, _)
ChildrenFrom(ts, zoom) ==
    IF ts[1].z >= zoom THEN ts
    ELSE ChildrenFrom([i \in 1..(4 * Len(ts)) |->
                          ChildOf(ts[((i - 1) \div 4) + 1], (i - 1) % 4)], zoom)

Children(t, zoom) == ChildrenFrom(<<t>>, zoom)

(* --------------------------- Python's set ----------------------------- *)
\* hash() of a small int: itself, except that -1 is reserved and maps to -2
PyHash(v) == IF v = -1 THEN -2 ELSE v

RECURSIVE ShiftRight5(_, _)
ShiftRight5(p, k) == IF k = 0 THEN p ELSE ShiftRight5(p \div 32, k - 1)

\* perturb after k rounds of `perturb >>= PERTURB_SHIFT` (5), started at
\* (size_t)hash, as a number congruent to it modulo every table size in
\* range: the 64-bit pattern of a negative hash keeps its high ones for 11
\* rounds, is 2^4 + (hash >> 60) in round 12 and 0 afterwards
Perturb(h, k) ==
    IF h >= 0 \/ k <= 11 THEN ShiftRight5(h, k)
    ELSE IF k = 12 THEN 16 + ShiftRight5(h, 12)
    ELSE 0

EmptySlots(n) == [j \in 1..n |-> <<>>]

\* the probe sequence shared by set_add_entry and set_insert_clean: from
\* slot i, up to LINEAR_PROBES (9) further slots when they fit below mask,
\* then i = (i * 5 + 1 + perturb) & mask.  Slot j is slots[j + 1].
RECURSIVE ProbeSlot(_, _, _, _, _)
ProbeSlot(slots, mask, i, v, k) ==
    LET n == IF i + 9 <= mask THEN 9 ELSE 0
        hits == {j \in i..(i + n) : slots[j + 1] = <<>> \/ slots[j + 1] = <<v>>}
    IN IF hits # {}
       THEN CHOOSE j \in hits : \A j2 \in hits : j <= j2
       ELSE ProbeSlot(slots, mask,
                      (i * 5 + 1 + Perturb(PyHash(v), k + 1)) % (mask + 1), v, k + 1)

FirstSlot(slots, mask, v) == ProbeSlot(slots, mask, PyHash(v) % (mask + 1), v, 0)

\* the keys of a table in slot order: the order a set is iterated in
SlotEntries(slots) ==
    LET used == {j \in 1..Len(slots) : slots[j] # <<>>}
    IN [k \in 1..Cardinality(used) |->
          slots[CHOOSE j \in used : Cardinality({j2 \in used : j2 < j}) = k - 1][1]]

\* set_insert_clean, for keys[n], keys[n + 1], ...
RECURSIVE InsertClean(_, _, _, _)
InsertClean(slots, mask, keys, n) ==
    IF n > Len(keys) THEN slots
    ELSE InsertClean([slots EXCEPT ![FirstSlot(slots, mask, keys[n]) + 1] = <<keys[n]>>],
                     mask, keys, n + 1)

RECURSIVE NewSize(_, _)
NewSize(size, minused) == IF size > minused THEN size ELSE NewSize(2 * size, minused)

\* set_table_resize: the smallest power of two above minused, from 8; the
\* old entries are re-inserted in slot order
SetTableResize(s, minused) ==
    LET size == NewSize(8, minused)
    IN [mask |-> size - 1, fill |-> s.fill,
        slots |-> InsertClean(EmptySlots(size), size - 1, SlotEntries(s.slots), 1)]

\* set_add_entry: a key already present changes nothing; a new key takes
\* the first unused slot of its probe sequence and the table is resized to
\* 4 * used once fill * 5 >= mask * 3
SetAddEntry(s, v) ==
    LET j == FirstSlot(s.slots, s.mask, v)
    IN IF s.slots[j + 1] = <<v>> THEN s
       ELSE LET t == [mask |-> s.mask, fill |-> s.fill + 1,
                      slots |-> [s.slots EXCEPT ![j + 1] = <<v>>]]
            IN IF t.fill * 5 < t.mask * 3 THEN t ELSE SetTableResize(t, t.fill * 4)

\* the items of a sequence without the repeats of an earlier item, in order
FirstOccurrences(items) ==
    LET firsts == {i \in 1..Len(items) : \A j \in 1..(i - 1) : items[j] # items[i]}
    IN [k \in 1..Cardinality(firsts) |->
          items[CHOOSE i \in firsts : Cardinality({i2 \in firsts : i2 < i}) = k - 1]]

\* set_update_internal: the items are added one by one, keys[n] onwards
RECURSIVE SetUpdate(_, _, _)
SetUpdate(s, keys, n) ==
    IF n > Len(keys) THEN s ELSE SetUpdate(SetAddEntry(s, keys[n]), keys, n + 1)

\* set(items)
\* set(items), from an empty table of 8 slots.  Adding a key that is
\* present changes nothing (SetAddEntry), so the repeats are dropped before
\* the fold to keep its evaluation shallow
PySet(items) ==
    SetUpdate([mask |-> 7, fill |-> 0, slots |-> EmptySlots(8)], FirstOccurrences(items), 1)

\* list(set(items))
ListOfSet(items) == SlotEntries(PySet(items).slots)

(* ------------------------------ tiler.py ------------------------------ *)
RECURSIVE SeqsOver(_, _)
SeqsOver(S, n) == IF n = 0 THEN {<<>>}
                  ELSE {Append(q, d) : q \in SeqsOver(S, n - 1), d \in S}

\* cog.key.split("/")[-2]: the quadkey segment of the key, a digit string
Quadkeys == UNION {SeqsOver(0..3, n) : n \in 0..MaxParentZ}

\* types.Cog, as far as the tiler reads it: the key's quadkey and len(ifds)
Cogs == [quadkey : Quadkeys, nifds : 1..MaxIfd]

Sizes == {Pow2(k) : k \in 0..MaxLogSize}

RequestTiles == UNION {TilesAt(z) : z \in 0..MaxZoom}

ParentTile(c) == QuadkeyToTile(c.quadkey)

\* a variant that leaves len(cog.ifds) out, as request_metatile's level does
XyzOverviewLevelWithoutIfds(c, tile) == tile.z - ParentTile(c).z - 1

\* request_xyz_tile: overview_level = parent_tile.z + len(cog.ifds) - tile.z - 1
XyzOverviewLevel(c, tile) == ParentTile(c).z + c.nifds - tile.z - 1

\* a variant that forgets the zoom and takes the parent tile as the origin
OriginAtParentZoom(c, zoom) == ParentTile(c)

\* origin = mercantile.tile(*mercantile.ul(parent_tile), zoom)
Origin(c, zoom) == MTile(Ul(ParentTile(c)), zoom)

\* metatile_zoom = int(tile.z + math.log(size, 2))
MetatileZoom(tile, size) == tile.z + Log2(size)

\* request_metatile: overview_level = metatile_zoom - parent_tile.z - 1
MetatileOverviewLevel(c, tile, size) == MetatileZoom(tile, size) - ParentTile(c).z - 1

\* children = mercantile.children(tile, zoom=metatile_zoom)
MetatileChildren(tile, size) == Children(tile, MetatileZoom(tile, size))

\* xs, ys = zip(*[(child.x - origin.x, child.y - origin.y) for child in children])
MetatileXs(c, tile, size) ==
    LET ch == MetatileChildren(tile, size)
    IN [i \in 1..Len(ch) |-> ch[i].x - Origin(c, MetatileZoom(tile, size)).x]

MetatileYs(c, tile, size) ==
    LET ch == MetatileChildren(tile, size)
    IN [i \in 1..Len(ch) |-> ch[i].y - Origin(c, MetatileZoom(tile, size)).y]

Xmin(c, tile, size) == SeqMin(MetatileXs(c, tile, size))

\* a variant that takes the last child's column for the largest
XmaxOfLastChild(c, tile, size) ==
    MetatileXs(c, tile, size)[Len(MetatileXs(c, tile, size))]

Xmax(c, tile, size) == SeqMax(MetatileXs(c, tile, size))

\* unique_ys = list(set(ys))
UniqueYs(c, tile, size) == ListOfSet(MetatileYs(c, tile, size))

\* [read_row(y, overview_level, cog, xmin, xmax) for y in unique_ys], each
\* wrapped in a task by asyncio.gather
RowTasks(c, tile, size) ==
    LET ys == UniqueYs(c, tile, size)
    IN [i \in 1..Len(ys) |->
          [y |-> ys[i], level |-> MetatileOverviewLevel(c, tile, size),
           xmin |-> Xmin(c, tile, size), xmax |-> Xmax(c, tile, size),
           st |-> "scheduled"]]

\* read_tile(xoff, yoff, overview_level, cog)
ReadTileCall(c, tile) ==
    [x |-> tile.x - Origin(c, tile.z).x, y |-> tile.y - Origin(c, tile.z).y,
     level |-> XyzOverviewLevel(c, tile), issued |-> TRUE]

NoCall == [x |-> 0, y |-> 0, level |-> 0, issued |-> FALSE]
NoReq == [kind |-> "none", tile |-> Tile(0, 0, 0), size |-> 1]

\* the payload of one tile, named by where it was read
TileBytes(level, x, y) == [level |-> level, x |-> x, y |-> y]

\* read_row's value: the tiles of columns xmin..xmax of row y, in order
ReadRowResult(t) ==
    [k \in 1..(t.xmax - t.xmin + 1) |-> TileBytes(t.level, t.xmin + k - 1, t.y)]

\* what a read raises
ReadErrors == {"RangeUnavailable", "TileOutOfBounds"}

\* a variant that awaits the rows one after the other
CanStartAfterPrevious(ts, i) ==
    ts[i].st = "scheduled" /\ \A j \in 1..(i - 1) : ts[j].st = "done"

\* the event loop runs the first step of the tasks gather created in the
\* order it created them; nothing else is waited for
CanStart(ts, i) == ts[i].st = "scheduled" /\ \A j \in 1..(i - 1) : ts[j].st # "scheduled"

\* a variant that returns once every task has settled, raised or not
GatherCanReturnSettled(ts) == \A i \in DOMAIN ts : ts[i].st \in {"done", "failed"}

\* gather(*aws) without return_exceptions: its value is set when every
\* task has returned, its exception when a task raises
GatherCanReturn(ts) == \A i \in DOMAIN ts : ts[i].st = "done"

GatherCanRaise(ts) == \E i \in DOMAIN ts : ts[i].st = "failed"

\* the list gather returns: the values in the order of the awaitables
GatherResult(ts) == [i \in DOMAIN ts |-> ReadRowResult(ts[i])]

\* a task gather has not been told to cancel keeps running after the
\* awaiting coroutine was resumed with the exception
SiblingRuns(ts, i, p) == ts[i].st = "running" /\ p \in {"gather", "raised"}

(* ------------------------------- io.py -------------------------------- *)
Buckets == {"a", "b"}

\* An S3Store is named by its bucket and its rank among the stores
\* constructed for that bucket: made[b] counts them.

\* functools.lru_cache(maxsize=1) around _get_default_obstore_client: the
\* one cached entry is returned when its bucket is asked for; otherwise a
\* store is constructed and replaces the entry
GetDefaultObstoreClient(c, m, b) ==
    IF c # <<>> /\ c[1].bucket = b
    THEN [cache |-> c, made |-> m, client |-> c[1].inst]
    ELSE [cache |-> <<[bucket |-> b, inst |-> m[b] + 1]>>,
          made |-> [m EXCEPT ![b] = @ + 1], client |-> m[b] + 1]

\* send_range_obstore: client = client or _get_default_obstore_client(bucket)
ResolveClient(c, m, b, given) ==
    IF given THEN [cache |-> c, made |-> m, client |-> 0]
    ELSE GetDefaultObstoreClient(c, m, b)

\* send_range_obstore: store = obs.store.S3Store(bucket, config=...), and
\* obs.get_range_async(store, ...) reads through it
FetchStore(r, b) == [bucket |-> b, inst |-> r.made[b] + 1]

Init ==
    /\ cog \in Cogs
    /\ req = NoReq
    /\ pc = "idle"
    /\ tasks = <<>>
    /\ call = NoCall
    /\ result = <<>>
    /\ err = "none"
    /\ cache = <<>>
    /\ made = [b \in Buckets |-> 0]
    /\ inflight = {}
    /\ fetched = {}

\* request_xyz_tile up to its await
RequestXyzTile(tile) ==
    /\ pc = "idle"
    /\ req' = [kind |-> "xyz", tile |-> tile, size |-> 1]
    /\ call' = ReadTileCall(cog, tile)
    /\ pc' = "read_tile"
    /\ UNCHANGED <<cog, tasks, result, err>>
    /\ UNCHANGED ioVars

\* read_tile returns: request_xyz_tile returns its bytes
ReadTileReturn ==
    /\ pc = "read_tile"
    /\ result' = << <<TileBytes(call.level, call.x, call.y)>> >>
    /\ pc' = "returned"
    /\ UNCHANGED <<cog, req, tasks, call, err>>
    /\ UNCHANGED ioVars

\* read_tile raises: the exception leaves request_xyz_tile
ReadTileRaise(e) ==
    /\ pc = "read_tile"
    /\ err' = e
    /\ pc' = "raised"
    /\ UNCHANGED <<cog, req, tasks, call, result>>
    /\ UNCHANGED ioVars

\* request_metatile up to its await: the rows are computed and gather
\* turns every read_row coroutine into a scheduled task
RequestMetatile(tile, size) ==
    /\ pc = "idle"
    /\ MetatileZoom(tile, size) <= MaxZoom
    /\ req' = [kind |-> "metatile", tile |-> tile, size |-> size]
    /\ tasks' = RowTasks(cog, tile, size)
    /\ pc' = "gather"
    /\ UNCHANGED <<cog, call, result, err>>
    /\ UNCHANGED ioVars

RowStart(i) ==
    /\ pc \in {"gather", "raised"}
    /\ CanStart(tasks, i)
    /\ tasks' = [tasks EXCEPT ![i].st = "running"]
    /\ UNCHANGED <<cog, req, pc, call, result, err>>
    /\ UNCHANGED ioVars

RowReturn(i) ==
    /\ SiblingRuns(tasks, i, pc)
    /\ tasks' = [tasks EXCEPT ![i].st = "done"]
    /\ UNCHANGED <<cog, req, pc, call, result, err>>
    /\ UNCHANGED ioVars

RowRaise(i) ==
    /\ SiblingRuns(tasks, i, pc)
    /\ tasks' = [tasks EXCEPT ![i].st = "failed"]
    /\ UNCHANGED <<cog, req, pc, call, result, err>>
    /\ UNCHANGED ioVars

\* every row returned: request_metatile returns gather's list
GatherReturn ==
    /\ pc = "gather"
    /\ GatherCanReturn(tasks)
    /\ result' = GatherResult(tasks)
    /\ pc' = "returned"
    /\ UNCHANGED <<cog, req, tasks, call, err>>
    /\ UNCHANGED ioVars

\* a row raised: request_metatile is resumed with that exception
GatherRaise ==
    /\ pc = "gather"
    /\ GatherCanRaise(tasks)
    /\ err' = "RangeUnavailable"
    /\ pc' = "raised"
    /\ UNCHANGED <<cog, req, tasks, call, result>>
    /\ UNCHANGED ioVars

\* the caller is done with the outcome; the next request may follow
NextRequest ==
    /\ pc \in {"returned", "raised"}
    /\ req' = NoReq
    /\ pc' = "idle"
    /\ tasks' = <<>>
    /\ call' = NoCall
    /\ result' = <<>>
    /\ err' = "none"
    /\ UNCHANGED cog
    /\ UNCHANGED ioVars

\* a direct lookup of the default client
DefaultClientLookup(b) ==
    /\ made[b] < MaxCalls
    /\ LET r == GetDefaultObstoreClient(cache, made, b)
       IN /\ cache' = r.cache
          /\ made' = r.made
    /\ UNCHANGED <<inflight, fetched>>
    /\ UNCHANGED tilerVars

\* send_range_obstore up to its await
SendRangeObstore(b, given) ==
    /\ made[b] < MaxCalls
    /\ LET r == ResolveClient(cache, made, b, given)
           store == FetchStore(r, b)
       IN /\ cache' = r.cache
          /\ made' = [r.made EXCEPT ![b] = store.inst]
          /\ inflight' = inflight \cup {store}
    /\ UNCHANGED fetched
    /\ UNCHANGED tilerVars

\* get_range_async returned: send_range_obstore returns r.to_bytes()
SendRangeReturn(store) ==
    /\ store \in inflight
    /\ inflight' = inflight \ {store}
    /\ fetched' = fetched \cup {store}
    /\ UNCHANGED <<cache, made>>
    /\ UNCHANGED tilerVars

\* get_range_async raised: the exception leaves send_range_obstore
SendRangeRaise(store) ==
    /\ store \in inflight
    /\ inflight' = inflight \ {store}
    /\ UNCHANGED <<cache, made, fetched>>
    /\ UNCHANGED tilerVars

NextIO ==
    \/ \E b \in Buckets : DefaultClientLookup(b)
    \/ \E b \in Buckets, given \in BOOLEAN : SendRangeObstore(b, given)
    \/ \E store \in inflight : SendRangeReturn(store)
    \/ \E store \in inflight : SendRangeRaise(store)

SpecIO == Init /\ [][NextIO]_vars

Next ==
    \/ \E tile \in RequestTiles : RequestXyzTile(tile)
    \/ ReadTileReturn
    \/ \E e \in ReadErrors : ReadTileRaise(e)
    \/ \E tile \in RequestTiles, size \in Sizes : RequestMetatile(tile, size)
    \/ \E i \in DOMAIN tasks : RowStart(i)
    \/ \E i \in DOMAIN tasks : RowReturn(i)
    \/ \E i \in DOMAIN tasks : RowRaise(i)
    \/ GatherReturn
    \/ GatherRaise
    \/ NextRequest

Spec == Init /\ [][Next]_vars

(* ------------------------------ properties ---------------------------- *)
IsMetatile == req.kind = "metatile"
IsXyz == req.kind = "xyz"
ParentZ == ParentTile(cog).z
ReqZoom == MetatileZoom(req.tile, req.size)

\* The child tiles of the requested tile at metatile_zoom are the tiles of
\* columns tile.x * size .. tile.x * size + size - 1 and of the same span of
\* rows from tile.y * size; FirstXoff and FirstYoff are the offsets of the
\* first column and row from the origin.
FirstXoff == req.tile.x * req.size - Origin(cog, ReqZoom).x
FirstYoff == req.tile.y * req.size - Origin(cog, ReqZoom).y

\* the distinct yoff values of the child tiles
YoffSet == FirstYoff..(FirstYoff + req.size - 1)

\* the requested tile is the parent tile or lies under it in the pyramid
InCoverage ==
    /\ req.tile.z >= ParentZ
    /\ req.tile.x \div Pow2(req.tile.z - ParentZ) = ParentTile(cog).x
    /\ req.tile.y \div Pow2(req.tile.z - ParentZ) = ParentTile(cog).y

\* C1: every row fetch of a metatile request is handed the overview index
\* parent_tile.z + ifd_count - metatile_zoom - 1, the index the single-tile
\* request computes at that zoom.
C1_MetatileLevelAsXyz ==
    (IsMetatile /\ pc = "gather") =>
        \A i \in DOMAIN tasks : tasks[i].level = ParentZ + cog.nifds - ReqZoom - 1

\* C2: the structure request_metatile returns lists its rows in ascending
\* yoff order: the row at index i is the row whose yoff has rank i among the
\* distinct yoff values of the child tiles.
C2_RowsAscendingByYoff ==
    (IsMetatile /\ pc = "returned") =>
        \A i \in DOMAIN result :
            /\ result[i][1].y \in YoffSet
            /\ Cardinality({y \in YoffSet : y < result[i][1].y}) = i - 1

\* C3: request_metatile is all-or-nothing: once a row has failed the call
\* can only fail (it is awaiting with the failure pending, or has raised)
\* and holds no result; a returned structure holds every row, all of them
\* completed.
C3_AllOrNothing ==
    IsMetatile =>
        /\ (\E i \in DOMAIN tasks : tasks[i].st = "failed") =>
              /\ pc \in {"gather", "raised"}
              /\ result = <<>>
              /\ pc = "gather" => (ENABLED GatherRaise /\ ~ ENABLED GatherReturn)
        /\ pc = "returned" =>
              /\ Len(result) = Len(tasks)
              /\ \A i \in DOMAIN tasks : tasks[i].st = "done"

C3_Witness ==
    /\ IsMetatile /\ pc = "raised" /\ result = <<>>
    /\ \E i \in DOMAIN tasks : tasks[i].st = "failed"
    /\ \E i \in DOMAIN tasks : tasks[i].st = "done"

\* C4: a single-tile request whose overview index is outside [0, ifd_count)
\* fails with ZoomOutOfRange and no tile read is attempted.
C4_ZoomOutOfRange ==
    (IsXyz /\ XyzOverviewLevel(cog, req.tile) \notin 0..(cog.nifds - 1)) =>
        /\ ~ call.issued
        /\ pc = "raised"
        /\ err = "ZoomOutOfRange"

\* C5: request_xyz_tile reads the tile at overview index
\* parent_tile.z + ifd_count - tile.z - 1 and at column/row
\* (tile.x - origin.x, tile.y - origin.y) for the tile `origin` of zoom tile.z
\* whose upper-left corner is the parent tile's upper-left corner.
C5_XyzTileAddress ==
    (IsXyz /\ pc = "read_tile") =>
        /\ call.issued
        /\ call.level = ParentZ + cog.nifds - req.tile.z - 1
        /\ \A o \in TilesAt(req.tile.z) :
              (/\ o.x * Pow2(ParentZ) = ParentTile(cog).x * Pow2(req.tile.z)
               /\ o.y * Pow2(ParentZ) = ParentTile(cog).y * Pow2(req.tile.z))
              => (call.x = req.tile.x - o.x /\ call.y = req.tile.y - o.y)

C5_Witness ==
    /\ IsXyz /\ pc = "read_tile"
    /\ req.tile.z > ParentZ /\ ParentZ > 0
    /\ call.level = 0 /\ call.x = 1 /\ call.y = 1
    /\ ParentTile(cog).x = 1

\* C6: request_metatile covers exactly size x size child tiles: it issues
\* exactly `size` row fetches, one per distinct yoff of the children, and
\* every row fetch covers the same inclusive span [xmin, xmax] of `size`
\* columns; together the rows are the offsets of the children.
C6_SizeBySize ==
    (IsMetatile /\ pc = "gather") =>
        /\ Len(tasks) = req.size
        /\ {tasks[i].y : i \in DOMAIN tasks} = YoffSet
        /\ \A i \in DOMAIN tasks :
              /\ tasks[i].xmax - tasks[i].xmin + 1 = req.size
              /\ tasks[i].xmin = FirstXoff

C6_Witness ==
    /\ IsMetatile /\ pc = "gather" /\ req.size = 4
    /\ Len(tasks) = 4
    /\ \A i \in DOMAIN tasks : tasks[i].xmax - tasks[i].xmin = 3

\* C7: the row fetches are fanned out, not serialized: when the request
\* waits, every row is already a task, and the next row in line can start
\* whatever the others have done - no start waits for a completion.
C7_FanOut ==
    IsMetatile =>
        /\ pc = "gather" => Len(tasks) = req.size
        /\ \A i \in DOMAIN tasks :
              (/\ pc \in {"gather", "raised"}
               /\ tasks[i].st = "scheduled"
               /\ \A j \in 1..(i - 1) : tasks[j].st # "scheduled")
              => ENABLED RowStart(i)

C7_Witness ==
    /\ IsMetatile /\ pc = "gather" /\ Len(tasks) >= 2
    /\ \A i \in DOMAIN tasks : tasks[i].st = "running"

\* C8: once a metatile request has failed, none of its row fetches that is
\* still in flight goes on to run to completion.
C8_SiblingsCancelled ==
    [][(IsMetatile /\ pc = "raised") =>
          \A i \in DOMAIN tasks :
              (tasks[i].st = "running" /\ i \in DOMAIN tasks') => tasks'[i].st # "done"]_vars

\* C9: the object-storage backend keeps one shared client per bucket: at
\* most one store is ever constructed for a bucket, and every fetch for the
\* bucket goes through that one instance.
C9_OneClientPerBucket ==
    \A b \in Buckets :
        /\ made[b] <= 1
        /\ \A store \in inflight \cup fetched :
              store.bucket = b => (cache # <<>> /\ cache[1] = store)

\* C10: for a request of the parent tile or of a tile under it, the column
\* and row handed to read_tile, and the columns and row handed to every
\* read_row, lie in [0, 2^(zoom - parent_tile.z)) at the zoom resolved.
C10_OffsetsInRange ==
    InCoverage =>
        /\ (IsXyz /\ pc = "read_tile") =>
              /\ call.x \in 0..(Pow2(req.tile.z - ParentZ) - 1)
              /\ call.y \in 0..(Pow2(req.tile.z - ParentZ) - 1)
        /\ (IsMetatile /\ pc = "gather") =>
              \A i \in DOMAIN tasks :
                  /\ tasks[i].y \in 0..(Pow2(ReqZoom - ParentZ) - 1)
                  /\ tasks[i].xmin >= 0
                  /\ tasks[i].xmax <= Pow2(ReqZoom - ParentZ) - 1

C10_Witness ==
    /\ IsMetatile /\ pc = "gather" /\ InCoverage
    /\ ParentZ >= 1 /\ req.size >= 2
    /\ \E i \in DOMAIN tasks : tasks[i].y = 1 /\ tasks[i].xmax = 1

====
